---- MODULE Spec2Model ----
(***************************************************************************)
(* Model of the colour assignment engine of page_coloring_model.py:        *)
(* Hardware (CPU cores, cache levels, system page colours), the memory     *)
(* consumers (two Subjects and one Channel between them) with their colour *)
(* lists, and the ColorAssigner strategies (naive, interference domains,   *)
(* cache isolation domains) together with reset_colors.                    *)
(*                                                                         *)
(* A CPU core is an integer, a SystemPageColor is a pair <<cpu, p>>, a     *)
(* Python dict is a function (a dict with insertion order: the sequence of *)
(* its keys is given by get_all_system_page_colors), a Python list is a    *)
(* sequence, a Python set is a set.  The iteration order of a Python set   *)
(* of memory consumers is not fixed by the language: every call draws a    *)
(* permutation `order` of the consumers and iterates sets along it.        *)
(***************************************************************************)
EXTENDS Integers, Sequences, FiniteSets, TLC

\* ------------------------------------------------------------------ bounds
MaxCpus == 2
MaxColors == 2
MaxDomains == 2
MaxCalls == 2
MaxLevels == 3
MaxTotalCapacity == 16
MaxAssociativity == 2
MaxCachelineCapacity == 4
MaxPageSize == 4
MaxFurtherPages == 4
MaxObjectCalls == 5
MaxCpuConstructions == 4

\* ------------------------------------------------------ program constants
\* MemoryConsumer.__init__(self, memsize, page_size = 4096)
PAGE_SIZE == 4096

\* ------------------------------------------------- the objects of a system
\* Subject s1, Subject s2 and Channel c12 = Channel(memsize, s1, s2).
Consumers == {"s1", "s2", "c12"}

\* Subject is a MemoryConsumer and an Executor; a Channel is no Executor.
Executors == {"s1", "s2"}

Range(s) == {s[i] : i \in 1..Len(s)}

VARIABLES
  hardware,                 \* Hardware: [cpu_cores, caches]
  all_memory_consumers,     \* the values of the dict, in insertion order
  domains,                  \* List[Set[MemoryConsumer]] handed to the assigner
  executor_cpu_constraints, \* Dict[Executor, Set[CPU]] (a partial function)
  colors,                   \* MemoryConsumer.colors of every consumer
  last,                     \* record of the last call (history variable)
  calls_left,               \* number of calls the driver still makes
  objects,                  \* the constructed Kernels, Subjects and Channels
  cpu_namespace,            \* Hardware.CPU.cpu_namespace (class attribute)
  cpu_ctr                   \* Hardware.CPU.cpu_ctr (class attribute)

vars == <<hardware, all_memory_consumers, domains, executor_cpu_constraints,
          colors, last, calls_left, objects, cpu_namespace, cpu_ctr>>

\* ------------------------------------------- Kernel, Subject and Channel
\* The heap of constructed objects is a function from object names to
\* records of the objects' fields (the colour list of a MemoryConsumer is
\* kept in the variable colors).  A dict is a function on its keys.

\* MemoryConsumer.__init__ (page_size = 4096): the two assertions
MemoryConsumer_init_err(memsize) ==
  IF memsize % PAGE_SIZE # 0 THEN "AssertionError"
  ELSE IF ~(memsize > 0) THEN "AssertionError"
  ELSE "None"

\* The fields MemoryConsumer.__init__ sets (and, for every kind, the fields
\* the subclass adds, empty).
MemoryConsumer_init(kind, memsize) ==
  [kind |-> kind, memsize |-> memsize, address_space |-> "None",
   executors |-> <<>>, inchannels |-> <<>>, outchannels |-> <<>>,
   source |-> "None", target |-> "None"]

\* MemoryConsumer.add_executor
add_executor(objs, self, executor) ==
  [objs EXCEPT ![self].executors = Append(@, executor)]

\* Subject.add_inchannel
add_inchannel(objs, self, channel) ==
  LET from_subject == objs[channel].source
      inchannels == objs[self].inchannels
  IN [objs EXCEPT ![self].inchannels =
        IF from_subject \notin DOMAIN inchannels
        THEN inchannels @@ (from_subject :> <<channel>>)
        ELSE [inchannels EXCEPT ![from_subject] = Append(@, channel)]]

\* Subject.add_outchannel
add_outchannel(objs, self, channel) ==
  LET to_subject == objs[channel].target
      outchannels == objs[self].outchannels
  IN [objs EXCEPT ![self].outchannels =
        IF to_subject \notin DOMAIN outchannels
        THEN outchannels @@ (to_subject :> <<channel>>)
        ELSE [outchannels EXCEPT ![to_subject] = Append(@, channel)]]

\* Kernel.__init__ (memsize passed the assertions)
Kernel_init(objs, self, memsize) ==
  add_executor(objs @@ (self :> MemoryConsumer_init("Kernel", memsize)),
               self, self)

\* Subject.__init__
Subject_init(objs, self, memsize) ==
  add_executor(objs @@ (self :> MemoryConsumer_init("Subject", memsize)),
               self, self)

\* Variant: only the source is added as an executor of the channel.
Channel_init_source_only(objs, self, memsize, source, target) ==
  LET objs1 == objs @@ (self :> [MemoryConsumer_init("Channel", memsize)
                                   EXCEPT !.source = source, !.target = target])
      objs2 == add_outchannel(objs1, source, self)
      objs3 == add_inchannel(objs2, target, self)
  IN add_executor(objs3, self, source)

\* Channel.__init__
Channel_init(objs, self, memsize, source, target) ==
  LET objs1 == objs @@ (self :> [MemoryConsumer_init("Channel", memsize)
                                   EXCEPT !.source = source, !.target = target])
      objs2 == add_outchannel(objs1, source, self)
      objs3 == add_inchannel(objs2, target, self)
      objs4 == add_executor(objs3, self, source)
  IN add_executor(objs4, self, target)

\* len(range(start, stop)) of the range <<start, stop>>
range_len(mem_range) ==
  IF mem_range[2] > mem_range[1] THEN mem_range[2] - mem_range[1] ELSE 0

\* __address_space_size: size += len(mem_range) for every range, from i on
RECURSIVE address_space_size(_, _)
address_space_size(address_space, i) ==
  IF i > Len(address_space) THEN 0
  ELSE range_len(address_space[i]) + address_space_size(address_space, i + 1)

\* Variant: the address space is stored before the assertions are evaluated.
set_address_space_storing_first(objs, self, address_space) ==
  [err |-> IF Len(address_space) > 0 /\
              address_space_size(address_space, 1) = objs[self].memsize
           THEN "AttributeError" ELSE "AssertionError",
   objs |-> [objs EXCEPT ![self].address_space = address_space]]

\* MemoryConsumer.set_address_space.  The third assertion looks the local
\* function __address_space_not_overlapping up as an attribute of the class
\* (MemoryConsumer._MemoryConsumer__address_space_not_overlapping), which
\* does not exist: evaluating it raises AttributeError, so the assignment
\* self.address_space = address_space is never reached.
set_address_space(objs, self, address_space) ==
  IF ~(Len(address_space) > 0)
  THEN [err |-> "AssertionError", objs |-> objs]
  ELSE IF address_space_size(address_space, 1) # objs[self].memsize
  THEN [err |-> "AssertionError", objs |-> objs]
  ELSE [err |-> "AttributeError", objs |-> objs]

\* MemoryConsumer.get_address_space
get_address_space(objs, self) == objs[self].address_space

\* Subject.get_inoutchannels: self.inchannels[subject] + self.outchannels[subject]
get_inoutchannels(objs, self, subject) ==
  IF subject \notin DOMAIN objs[self].inchannels
  THEN [err |-> "KeyError", channels |-> <<>>]
  ELSE IF subject \notin DOMAIN objs[self].outchannels
  THEN [err |-> "KeyError", channels |-> <<>>]
  ELSE [err |-> "None",
        channels |-> objs[self].inchannels[subject] \o
                     objs[self].outchannels[subject]]

\* The objects of a system: s1 = Subject(memsize), s2 = Subject(memsize),
\* c12 = Channel(memsize, s1, s2).
TheSystem ==
  Channel_init(Subject_init(Subject_init(<<>>, "s1", PAGE_SIZE),
                            "s2", PAGE_SIZE),
               "c12", PAGE_SIZE, "s1", "s2")

\* MemoryConsumer.get_executors
get_executors(m) == objects[m].executors

\* --------------------------------------------------------------- Hardware.CPU
\* str(n) of an int
str(n) == ToString(n)

\* Variant: the assertion on the namespace is left out.
CPU_init_unchecked(name, namespace, ctr) ==
  LET unnamed == name = "None"
      name1 == IF unnamed THEN str(ctr) ELSE name
      ctr1 == IF unnamed THEN ctr + 1 ELSE ctr
  IN [err |-> "None", name |-> name1,
      cpu_namespace |-> Append(namespace, name1), cpu_ctr |-> ctr1]

\* Hardware.CPU.__init__(name); name = "None" stands for the default None.
\* The counter is incremented before the assertion is evaluated.
CPU_init(name, namespace, ctr) ==
  LET unnamed == name = "None"
      name1 == IF unnamed THEN str(ctr) ELSE name
      ctr1 == IF unnamed THEN ctr + 1 ELSE ctr
  IN IF name1 \in Range(namespace)
     THEN [err |-> "AssertionError", name |-> name1,
           cpu_namespace |-> namespace, cpu_ctr |-> ctr1]
     ELSE [err |-> "None", name |-> name1,
           cpu_namespace |-> Append(namespace, name1), cpu_ctr |-> ctr1]

\* ---------------------------------------------------------------- Hardware
get_cpu_cores(hw) == hw.cpu_cores

\* Variant: the flushed flag is not looked at (the loop breaks at once).
cpu_page_colors_loop_first_level(caches, i, colors_of_one_cache) ==
  IF i > Len(caches) THEN colors_of_one_cache ELSE caches[i].colors

\* Hardware.get_number_of_cpu_page_colors: the colour count of the first
\* cache of the first level that is not flushed (the last level's when all
\* levels are flushed).  caches[i] is the representative cache of level i.
RECURSIVE cpu_page_colors_loop(_, _, _)
cpu_page_colors_loop(caches, i, colors_of_one_cache) ==
  IF i > Len(caches) THEN colors_of_one_cache
  ELSE IF caches[i].flushed
       THEN cpu_page_colors_loop(caches, i + 1, caches[i].colors)
       ELSE caches[i].colors

get_number_of_cpu_page_colors(hw) ==
  cpu_page_colors_loop(hw.caches, 1, 0)

get_number_of_system_page_colors(hw) ==
  get_number_of_cpu_page_colors(hw) * Len(get_cpu_cores(hw))

\* The inner loop of the comprehension of get_all_system_page_colors:
\* [SystemPageColor(cpu, cpu_page_color) for cpu in cpu_cores], from core j on.
RECURSIVE system_page_colors_of_cpu_page_color(_, _, _)
system_page_colors_of_cpu_page_color(cpu_cores, j, cpu_page_color) ==
  IF j > Len(cpu_cores) THEN <<>>
  ELSE <<<<cpu_cores[j], cpu_page_color>>>> \o
       system_page_colors_of_cpu_page_color(cpu_cores, j + 1, cpu_page_color)

\* The outer loop: for cpu_page_color in range(n), from cpu_page_color on.
RECURSIVE system_page_colors_from(_, _, _)
system_page_colors_from(cpu_cores, cpu_page_color, n) ==
  IF cpu_page_color >= n THEN <<>>
  ELSE system_page_colors_of_cpu_page_color(cpu_cores, 1, cpu_page_color) \o
       system_page_colors_from(cpu_cores, cpu_page_color + 1, n)

\* Variant: the two loops of the comprehension are swapped (for cpu in
\* cpu_cores for cpu_page_color in range(n)).
get_all_system_page_colors_cpu_major(hw) ==
  LET n == get_number_of_cpu_page_colors(hw)
  IN [k \in 1..(n * Len(get_cpu_cores(hw))) |->
        <<get_cpu_cores(hw)[((k - 1) \div n) + 1], (k - 1) % n>>]

\* [SystemPageColor(cpu, cpu_page_color)
\*  for cpu_page_color in range(self.get_number_of_cpu_page_colors())
\*  for cpu in self.cpu_cache_config.get_cpu_cores()]
get_all_system_page_colors(hw) ==
  system_page_colors_from(get_cpu_cores(hw), 0, get_number_of_cpu_page_colors(hw))

\* {system_page_color: set() for system_page_color in all colours}
empty_assignment(hw) ==
  [c \in Range(get_all_system_page_colors(hw)) |-> {}]

\* -------------------------------------------------------------------- Cache
\* Python's true division of integers yields a float; the quotients of the
\* sizes modelled here are exactly representable, so a float is modelled as
\* the fraction num/den.
Ratio(num, den) == [num |-> num, den |-> den]

\* x / y
true_div(x, y) == Ratio(x.num * y.den, x.den * y.num)

\* float.is_integer
is_integer(x) == x.num % x.den = 0

\* int(x) of a float that is an integer
int(x) == x.num \div x.den

\* Variant: the quotients are floor divisions and nothing is asserted.
Cache_floor_division(total_capacity, associativity, cacheline_capacity, flushed, page_size) ==
  LET sets == total_capacity \div (associativity * cacheline_capacity)
      affected_sets_per_page == page_size \div cacheline_capacity
  IN [err |-> "None", flushed |-> flushed, sets |-> sets,
      affected_sets_per_page |-> affected_sets_per_page,
      colors |-> IF affected_sets_per_page = 0 THEN 0
                 ELSE sets \div affected_sets_per_page,
      cacheline_capacity |-> cacheline_capacity, page_size |-> page_size]

\* Variant: the assertion on colors is left out and int() truncates.
Cache_without_colors_assertion(total_capacity, associativity, cacheline_capacity, flushed, page_size) ==
  LET sets == true_div(Ratio(total_capacity, 1),
                       Ratio(associativity * cacheline_capacity, 1))
      affected_sets_per_page == true_div(Ratio(page_size, 1),
                                         Ratio(cacheline_capacity, 1))
      colors_ == true_div(sets, affected_sets_per_page)
  IN IF ~is_integer(sets) \/ ~is_integer(affected_sets_per_page)
     THEN [err |-> "ASSMS-CACHE-PROPS-ONLY-INTS", flushed |-> flushed,
           sets |-> 0, affected_sets_per_page |-> 0, colors |-> 0,
           cacheline_capacity |-> cacheline_capacity, page_size |-> page_size]
     ELSE [err |-> "None", flushed |-> flushed, sets |-> int(sets),
           affected_sets_per_page |-> int(affected_sets_per_page),
           colors |-> int(colors_),
           cacheline_capacity |-> cacheline_capacity, page_size |-> page_size]

\* Cache.__init__: err is "None" or the assertion that failed.
Cache(total_capacity, associativity, cacheline_capacity, flushed, page_size) ==
  LET sets == true_div(Ratio(total_capacity, 1),
                       Ratio(associativity * cacheline_capacity, 1))
      affected_sets_per_page == true_div(Ratio(page_size, 1),
                                         Ratio(cacheline_capacity, 1))
      colors_ == true_div(sets, true_div(Ratio(page_size, 1),
                                         Ratio(cacheline_capacity, 1)))
      failed == [err |-> "ASSMS-CACHE-PROPS-ONLY-INTS", flushed |-> flushed,
                 sets |-> 0, affected_sets_per_page |-> 0, colors |-> 0,
                 cacheline_capacity |-> cacheline_capacity,
                 page_size |-> page_size]
  IN IF ~is_integer(sets) THEN failed
     ELSE IF ~is_integer(affected_sets_per_page) THEN failed
     ELSE IF ~is_integer(colors_) THEN failed
     ELSE [err |-> "None", flushed |-> flushed, sets |-> int(sets),
           affected_sets_per_page |-> int(affected_sets_per_page),
           colors |-> int(colors_),
           cacheline_capacity |-> cacheline_capacity, page_size |-> page_size]

\* The default index function of a cache: the byte address a touches the
\* set floor(a / cacheline_capacity) mod number_of_sets.
default_index_function(cache, a) ==
  (a \div cache.cacheline_capacity) % cache.sets

\* The affected-set-id set of a page: the set ids touched across the page's
\* bytes, strided by cacheline_capacity.
affected_sets(cache, page_address) ==
  {default_index_function(cache, page_address + j * cache.cacheline_capacity) :
     j \in 0..((cache.page_size \div cache.cacheline_capacity) - 1)}

\* build_cache_colors for one cache: the affected-set-id sets of the first
\* number_of_colors page addresses; fewer distinct classes than
\* number_of_colors is a GeometryError.
build_cache_colors(cache) ==
  LET probed == [k \in 1..cache.colors |->
                   affected_sets(cache, (k - 1) * cache.page_size)]
  IN [err |-> IF Cardinality(Range(probed)) < cache.colors
              THEN "GeometryError" ELSE "None",
      probed |-> probed]

\* ---------------------------------------------------------- MemoryConsumer
\* MemoryConsumer.add_color on the colour lists cols
add_color(cols, m, color) ==
  [cols EXCEPT ![m] = Append(@, color)]

\* Variant: reset_colors drops only the last colour of every list.
reset_colors_dropping_last(amc, cols) ==
  [m \in DOMAIN cols |->
     IF m \in Range(amc) /\ cols[m] # <<>>
     THEN SubSeq(cols[m], 1, Len(cols[m]) - 1)
     ELSE cols[m]]

\* ColorAssigner.reset_colors / MemoryConsumer.reset_colors
reset_colors(amc, cols) ==
  [m \in DOMAIN cols |-> IF m \in Range(amc) THEN <<>> ELSE cols[m]]

\* Variant: the colours of an assignment replace the consumer's colour list.
_enforce_assignment_overwriting(assignment, all_colors, cols) ==
  [m \in DOMAIN cols |->
     IF \E k \in 1..Len(all_colors) : m \in assignment[all_colors[k]]
     THEN SelectSeq(all_colors, LAMBDA c : m \in assignment[c])
     ELSE cols[m]]

\* ColorAssigner._enforce_assignment: the colours are visited in the dict's
\* insertion order, and every consumer of a colour's set appends the colour.
_enforce_assignment(assignment, all_colors, cols) ==
  [m \in DOMAIN cols |->
     cols[m] \o SelectSeq(all_colors, LAMBDA c : m \in assignment[c])]

\* ----------------------------------------------------------- ColorAssigner
\* The result of a get_assignment_* call: the exception it raised ("None"
\* when it returned), the returned dict, and for the cache isolation domain
\* method the log of the domains whose processing was started.
Result(err, assignment, log) ==
  [err |-> err, assignment |-> assignment, log |-> log]

\* Variant: the consumers are zipped with the colours in CPU-major order.
get_assignment_by_naive_cpu_major(hw, amc) ==
  LET all_system_page_colors == get_all_system_page_colors_cpu_major(hw)
  IN IF Len(amc) > get_number_of_system_page_colors(hw)
     THEN Result("ColorExhaustion", empty_assignment(hw), <<>>)
     ELSE Result("None",
                 [c \in Range(all_system_page_colors) |->
                    {amc[i] : i \in {j \in 1..Len(amc) :
                                       all_system_page_colors[j] = c}}],
                 <<>>)

\* Variant: the comparison is num_required_colors >= num_assignable_colors.
get_assignment_by_naive_off_by_one(hw, amc) ==
  LET all_system_page_colors == get_all_system_page_colors(hw)
  IN IF Len(amc) >= get_number_of_system_page_colors(hw)
     THEN Result("ColorExhaustion", empty_assignment(hw), <<>>)
     ELSE Result("None",
                 [c \in Range(all_system_page_colors) |->
                    {amc[i] : i \in {j \in 1..Len(amc) :
                                       all_system_page_colors[j] = c}}],
                 <<>>)

\* ColorAssigner.get_assignment_by_naive
get_assignment_by_naive(hw, amc) ==
  LET all_system_page_colors == get_all_system_page_colors(hw)
      num_assignable_colors == get_number_of_system_page_colors(hw)
      num_required_colors == Len(amc)
  IN IF num_required_colors > num_assignable_colors
     THEN Result("ColorExhaustion", empty_assignment(hw), <<>>)
     ELSE Result("None",
                 [c \in Range(all_system_page_colors) |->
                    {amc[i] : i \in {j \in 1..Len(amc) :
                                       all_system_page_colors[j] = c}}],
                 <<>>)

\* The outcome of an assign_* call: the result of its get_assignment_* call
\* and the colour lists the call leaves behind.
Outcome(r, cols) ==
  [err |-> r.err, assignment |-> r.assignment, log |-> r.log, cols |-> cols]

\* Variant: the colours are handed out before the exhaustion is noticed.
assign_by_naive_partial(hw, amc, cols) ==
  LET all == get_all_system_page_colors(hw)
      r == get_assignment_by_naive(hw, amc)
  IN Outcome(r, _enforce_assignment(
       [c \in Range(all) |->
          {amc[i] : i \in {j \in 1..Len(amc) : j <= Len(all) /\ all[j] = c}}],
       all, cols))

\* ColorAssigner.assign_by_naive
assign_by_naive(hw, amc, cols) ==
  LET r == get_assignment_by_naive(hw, amc)
  IN IF r.err # "None" THEN Outcome(r, cols)
     ELSE Outcome(r, _enforce_assignment(r.assignment,
                                         get_all_system_page_colors(hw), cols))

\* ------------------------------------------- cache isolation domain method
\* The members of a Python set, in the iteration order of this call.
members_in_order(set, order) ==
  SelectSeq(order, LAMBDA m : m \in set)

\* cpus = []; for executor in executors: cpus.extend(constraints[executor])
\* (only evaluated when every executor has an entry)
memory_consumer_cpus(m, ecc) ==
  UNION {ecc[get_executors(m)[i]] : i \in 1..Len(get_executors(m))}

\* Variant: the loop never looks at the reservations and takes the first index.
first_assignable_page_color_ignoring_reservations(cpus, assignment, p, n) ==
  IF p >= n THEN -1 ELSE p

\* Variant: the loop runs over range(number_of_cpu_page_colors - 1).
RECURSIVE first_assignable_page_color_short_range(_, _, _, _)
first_assignable_page_color_short_range(cpus, assignment, p, n) ==
  IF p >= n - 1 THEN -1
  ELSE IF \A cpu \in cpus : assignment[<<cpu, p>>] = {}
       THEN p
       ELSE first_assignable_page_color_short_range(cpus, assignment, p + 1, n)

\* for cpu_page_color in range(number_of_cpu_page_colors): if all(...): return
\* yields the first such cpu_page_color at or after p, -1 when the loop ends
RECURSIVE first_assignable_page_color(_, _, _, _)
first_assignable_page_color(cpus, assignment, p, n) ==
  IF p >= n THEN -1
  ELSE IF \A cpu \in cpus : assignment[<<cpu, p>>] = {}
       THEN p
       ELSE first_assignable_page_color(cpus, assignment, p + 1, n)

\* Variant: every CPU gets its own lowest free index (A == B is not enforced).
get_next_assignable_colors_per_cpu(m, assignment, hw, ecc) ==
  IF \E i \in 1..Len(get_executors(m)) : get_executors(m)[i] \notin DOMAIN ecc
  THEN [err |-> "KeyError", colors |-> {}]
  ELSE LET cpus == memory_consumer_cpus(m, ecc)
           p(cpu) == first_assignable_page_color({cpu}, assignment, 0,
                                                 get_number_of_cpu_page_colors(hw))
       IN IF \E cpu \in cpus : p(cpu) = -1
          THEN [err |-> "ColorExhaustion", colors |-> {}]
          ELSE [err |-> "None", colors |-> {<<cpu, p(cpu)>> : cpu \in cpus}]

\* get_next_assignable_colors: KeyError when an executor of the consumer has
\* no entry in executor_cpu_constraints, ColorExhaustion when the loop ends.
get_next_assignable_colors(m, assignment, hw, ecc) ==
  IF \E i \in 1..Len(get_executors(m)) : get_executors(m)[i] \notin DOMAIN ecc
  THEN [err |-> "KeyError", colors |-> {}]
  ELSE LET cpus == memory_consumer_cpus(m, ecc)
           p == first_assignable_page_color(cpus, assignment, 0,
                                            get_number_of_cpu_page_colors(hw))
       IN IF p = -1
          THEN [err |-> "ColorExhaustion", colors |-> {}]
          ELSE [err |-> "None", colors |-> {<<cpu, p>> : cpu \in cpus}]

\* Variant: the test "color.get_cpu() in memory_consumer_cpus" is left out.
assign_colors_to_all_members(cache_isolation_domain, cache_isolation_domain_colors, assignment, ecc) ==
  [c \in DOMAIN assignment |->
     IF c \in cache_isolation_domain_colors
     THEN assignment[c] \cup cache_isolation_domain
     ELSE assignment[c]]

\* assign_colors: every colour of the domain is added to the members whose
\* CPUs contain the colour's CPU.
assign_colors(cache_isolation_domain, cache_isolation_domain_colors, assignment, ecc) ==
  [c \in DOMAIN assignment |->
     IF c \in cache_isolation_domain_colors
     THEN assignment[c] \cup
            {m \in cache_isolation_domain : c[1] \in memory_consumer_cpus(m, ecc)}
     ELSE assignment[c]]

\* Variant: the colours of a member are reserved before the next member of
\* the domain is looked at.
RECURSIVE collect_domain_colors_reserving(_, _, _, _, _)
collect_domain_colors_reserving(members, i, assignment, hw, ecc) ==
  IF i > Len(members) THEN [err |-> "None", colors |-> {}, visited |-> {}]
  ELSE LET r == get_next_assignable_colors(members[i], assignment, hw, ecc)
           reserved == [c \in DOMAIN assignment |->
                          IF c \in r.colors THEN assignment[c] \cup {members[i]}
                          ELSE assignment[c]]
       IN IF r.err # "None"
          THEN [err |-> r.err, colors |-> {}, visited |-> {members[i]}]
          ELSE LET rest == collect_domain_colors_reserving(members, i + 1,
                                                           reserved, hw, ecc)
               IN [err |-> rest.err,
                   colors |-> IF rest.err # "None" THEN {}
                              ELSE r.colors \cup rest.colors,
                   visited |-> {members[i]} \cup rest.visited]

\* for cache_isolation_member in cache_isolation_domain:
\*     cache_isolation_domain_colors.extend(get_next_assignable_colors(...))
\* members[i..] are still to be visited; the first exception ends the loop.
\* visited: the members get_next_assignable_colors was called for.
RECURSIVE collect_domain_colors(_, _, _, _, _)
collect_domain_colors(members, i, assignment, hw, ecc) ==
  IF i > Len(members) THEN [err |-> "None", colors |-> {}, visited |-> {}]
  ELSE LET r == get_next_assignable_colors(members[i], assignment, hw, ecc)
       IN IF r.err # "None"
          THEN [err |-> r.err, colors |-> {}, visited |-> {members[i]}]
          ELSE LET rest == collect_domain_colors(members, i + 1, assignment, hw, ecc)
               IN [err |-> rest.err,
                   colors |-> IF rest.err # "None" THEN {}
                              ELSE r.colors \cup rest.colors,
                   visited |-> {members[i]} \cup rest.visited]

\* assign_colors_to_cache_isolation_domain; cands records what
\* get_next_assignable_colors returned for every member.
assign_colors_to_cache_isolation_domain(cache_isolation_domain, assignment, hw, ecc, order) ==
  LET members == members_in_order(cache_isolation_domain, order)
      r == collect_domain_colors(members, 1, assignment, hw, ecc)
  IN IF r.err # "None"
     THEN [err |-> r.err, assignment |-> assignment, cands |-> <<>>,
           visited |-> r.visited]
     ELSE [err |-> "None", visited |-> r.visited,
           assignment |-> assign_colors(cache_isolation_domain, r.colors,
                                        assignment, ecc),
           cands |-> [m \in cache_isolation_domain |->
                        get_next_assignable_colors(m, assignment, hw, ecc).colors]]

\* for ci_domain in cache_isolation_domains: assign_colors_to_...(ci_domain)
\* The log gets one entry per domain whose processing was started: the
\* assignment as the previous domains left it, the members visited and the
\* members' candidates.
RECURSIVE process_cache_isolation_domains(_, _, _, _, _, _, _)
process_cache_isolation_domains(doms, i, assignment, hw, ecc, order, log) ==
  IF i > Len(doms) THEN Result("None", assignment, log)
  ELSE LET r == assign_colors_to_cache_isolation_domain(doms[i], assignment,
                                                        hw, ecc, order)
           entry == [pre |-> assignment, cands |-> r.cands, err |-> r.err,
                     visited |-> r.visited]
       IN IF r.err # "None"
          THEN Result(r.err, empty_assignment(hw), Append(log, entry))
          ELSE process_cache_isolation_domains(doms, i + 1, r.assignment, hw,
                                               ecc, order, Append(log, entry))

\* Variant: the counter is set to 1 instead of incremented.
count_membership_of_mc_as_flag(m, doms) ==
  IF \E i \in 1..Len(doms) : m \in doms[i] THEN 1 ELSE 0

\* count_membership_of_mc[memory_consumer]
count_membership_of_mc(m, doms) ==
  Cardinality({i \in 1..Len(doms) : m \in doms[i]})

\* ColorAssigner.get_assignment_by_cache_isolation_domains; access_given is
\* "cpu_access_constraints is not None".
get_assignment_by_cache_isolation_domains(hw, amc, doms, ecc, access_given, order) ==
  IF \E m \in Range(amc) : count_membership_of_mc(m, doms) = 0
  THEN Result("ASSMS-CACHE-ISOLATION-0", empty_assignment(hw), <<>>)
  ELSE IF \E m \in Range(amc) : count_membership_of_mc(m, doms) # 1
  THEN Result("ASSMS-CACHE-ISOLATION-1", empty_assignment(hw), <<>>)
  ELSE IF access_given
  THEN Result("ASSMS-CACHE-ISOLATION-7", empty_assignment(hw), <<>>)
  ELSE process_cache_isolation_domains(doms, 1, empty_assignment(hw), hw, ecc,
                                       order, <<>>)

\* ColorAssigner.assign_by_cache_isolation_domains
assign_by_cache_isolation_domains(hw, amc, doms, ecc, access_given, order, cols) ==
  LET r == get_assignment_by_cache_isolation_domains(hw, amc, doms, ecc,
                                                     access_given, order)
  IN IF r.err # "None" THEN Outcome(r, cols)
     ELSE Outcome(r, _enforce_assignment(r.assignment,
                                         get_all_system_page_colors(hw), cols))

\* ---------------------------------------------- interference domain method
\* Variant: the usage counters are not looked at.
get_next_assignable_color_ignoring_counters(table, all_colors, k) ==
  IF k > Len(all_colors) THEN 0 ELSE k

\* get_next_assignable_color: the index in the table's key order of the first
\* colour whose counter is 0; 0 stands for raise ColorExhaustion.
RECURSIVE get_next_assignable_color(_, _, _)
get_next_assignable_color(table, all_colors, k) ==
  IF k > Len(all_colors) THEN 0
  ELSE IF table[all_colors[k]] = 0 THEN k
       ELSE get_next_assignable_color(table, all_colors, k + 1)

\* list.remove(x): removes the first occurrence of x (x is in the list)
list_remove(values, m) ==
  LET k == CHOOSE j \in 1..Len(values) :
             values[j] = m /\ \A h \in 1..(j - 1) : values[h] # m
  IN SubSeq(values, 1, k - 1) \o SubSeq(values, k + 1, Len(values))

\* for memory_consumer in interference_domain: ... ; st is the state of the
\* call: [err, cols, table, values].  list.remove raises ValueError for a
\* consumer that is not (or no longer) in all_memory_consumers_values.
RECURSIVE color_interference_domain(_, _, _, _)
color_interference_domain(members, i, assignable_color, st) ==
  IF i > Len(members) THEN st
  ELSE LET m == members[i]
           table1 == IF Len(st.cols[m]) = 1
                     THEN [st.table EXCEPT ![st.cols[m][1]] = @ - 1]
                     ELSE st.table
           cols2 == add_color(st.cols, m, assignable_color)
           table2 == [table1 EXCEPT ![assignable_color] = @ + 1]
       IN IF m \notin Range(st.values)
          THEN [err |-> "ValueError", cols |-> cols2, table |-> table2,
                values |-> st.values]
          ELSE color_interference_domain(members, i + 1, assignable_color,
                 [err |-> "None", cols |-> cols2, table |-> table2,
                  values |-> list_remove(st.values, m)])

\* for interference_domain in interference_domains: ...
RECURSIVE color_interference_domains(_, _, _, _, _)
color_interference_domains(doms, i, all_colors, order, st) ==
  IF i > Len(doms) THEN st
  ELSE LET k == get_next_assignable_color(st.table, all_colors, 1)
       IN IF k = 0 THEN [st EXCEPT !.err = "ColorExhaustion"]
          ELSE LET st2 == color_interference_domain(
                            members_in_order(doms[i], order), 1, all_colors[k], st)
               IN IF st2.err # "None" THEN st2
                  ELSE color_interference_domains(doms, i + 1, all_colors, order, st2)

\* Variant: the rest loop does not count the colours it hands out.
RECURSIVE color_remaining_consumers_uncounted(_, _, _, _)
color_remaining_consumers_uncounted(values, i, all_colors, st) ==
  IF i > Len(values) THEN st
  ELSE LET k == get_next_assignable_color(st.table, all_colors, 1)
       IN IF k = 0 THEN [st EXCEPT !.err = "ColorExhaustion"]
          ELSE color_remaining_consumers_uncounted(values, i + 1, all_colors,
                 [st EXCEPT !.cols = add_color(st.cols, values[i], all_colors[k])])

\* for memory_consumer in all_memory_consumers_values: ... (the rest)
RECURSIVE color_remaining_consumers(_, _, _, _)
color_remaining_consumers(values, i, all_colors, st) ==
  IF i > Len(values) THEN st
  ELSE LET k == get_next_assignable_color(st.table, all_colors, 1)
       IN IF k = 0 THEN [st EXCEPT !.err = "ColorExhaustion"]
          ELSE color_remaining_consumers(values, i + 1, all_colors,
                 [st EXCEPT !.cols = add_color(st.cols, values[i], all_colors[k]),
                            !.table = [st.table EXCEPT ![all_colors[k]] = @ + 1]])

\* ColorAssigner.assign_color_by_interference_domains (it returns no dict)
assign_color_by_interference_domains(hw, amc, interference_domains, order, cols) ==
  LET none(err) == Result(err, empty_assignment(hw), <<>>)
  IN IF \E i \in 1..Len(amc) : cols[amc[i]] # <<>>
     THEN Outcome(none("AssertionError"), cols)
     ELSE LET all_colors == get_all_system_page_colors(hw)
              st0 == [err |-> "None", cols |-> cols,
                      table |-> [c \in Range(all_colors) |-> 0], values |-> amc]
              st1 == color_interference_domains(interference_domains, 1,
                                                all_colors, order, st0)
          IN IF st1.err # "None" THEN Outcome(none(st1.err), st1.cols)
             ELSE LET st2 == color_remaining_consumers(st1.values, 1,
                                                       all_colors, st1)
                  IN Outcome(none(st2.err), st2.cols)

\* ---------------------------------------------------- security label method
\* ColorAssigner.get_assignment_by_security_labels: return {}
get_assignment_by_security_labels(hw, all_executors) ==
  Result("None", <<>>, <<>>)

\* ColorAssigner.assign_color_by_security_labels: the dict has no keys
assign_color_by_security_labels(hw, all_executors, cols) ==
  LET r == get_assignment_by_security_labels(hw, all_executors)
  IN Outcome(r, _enforce_assignment(r.assignment, <<>>, cols))

\* ------------------------------------------------------ the state machine
\* The hardware descriptions: up to MaxCpus cores and one cache level that
\* is not flushed and has up to MaxColors colours.
Hardwares ==
  {[cpu_cores |-> [i \in 1..n |-> i - 1],
    caches |-> <<[colors |-> k, flushed |-> FALSE]>>] :
     n \in 1..MaxCpus, k \in 1..MaxColors}

\* The dicts of memory consumers of a system (their values in dict order).
ConsumerDicts == {<<"s1", "s2", "c12">>, <<"s1", "s2">>}

\* The domain lists: at most MaxDomains non-empty sets of consumers.
DomainLists ==
  UNION {[1..n -> (SUBSET Consumers) \ {{}}] : n \in 0..MaxDomains}

\* The executor-CPU-constraints: a dict from some of the executors to sets
\* of CPU cores of the hardware (#ASSMS-CACHE-ISOLATION-5).  The cores are
\* interchangeable for the assigner, so s1 is constrained to the first k
\* cores and s2 to any set of cores.
ExecutorCpuConstraints(hw) ==
  LET cores == Range(get_cpu_cores(hw))
  IN {ecc \in UNION {[K -> SUBSET cores] : K \in SUBSET Executors} :
        "s1" \in DOMAIN ecc =>
          \E k \in 0..Cardinality(cores) : ecc["s1"] = {cpu \in cores : cpu < k}}

\* The iteration orders of a set of consumers: two opposite orders, so that
\* every pair of consumers is visited in both relative orders.
Orders == {<<"s1", "s2", "c12">>, <<"c12", "s2", "s1">>}

\* The record of a call: what was called with which cpu_access_constraints,
\* its outcome, and the colour lists before the call.
Call(op, access_given, out, pre) ==
  [op |-> op, err |-> out.err, assignment |-> out.assignment, log |-> out.log,
   access_given |-> access_given, pre |-> pre]

\* The CPU registry after the cores of the hardware were constructed, each
\* by CPU() without a name.
CpusConstructed ==
  /\ cpu_namespace = [i \in 1..Len(get_cpu_cores(hardware)) |-> str(i - 1)]
  /\ cpu_ctr = Len(get_cpu_cores(hardware))

\* The objects a driver constructs: hardware, consumers (MemoryConsumer
\* __init__: colors = []), domains and constraints.
Setup ==
  /\ hardware \in Hardwares
  /\ CpusConstructed
  /\ objects = TheSystem
  /\ all_memory_consumers \in ConsumerDicts
  /\ domains \in DomainLists
  /\ executor_cpu_constraints \in ExecutorCpuConstraints(hardware)
  /\ colors = [m \in Consumers |-> <<>>]
  /\ last = Call("init", FALSE, Result("None", empty_assignment(hardware), <<>>),
                 [m \in Consumers |-> <<>>])

PairwiseDisjoint(doms) ==
  \A i, j \in 1..Len(doms) : i # j => doms[i] \cap doms[j] = {}

\* Up to MaxCalls calls in a row; the domains are pairwise disjoint and
\* every executor is constrained to at least one CPU core.
Init ==
  /\ Setup
  /\ PairwiseDisjoint(domains)
  /\ \A e \in Executors :
       e \in DOMAIN executor_cpu_constraints /\ executor_cpu_constraints[e] # {}
  /\ calls_left = MaxCalls

\* One call of the cache isolation domain method on freshly constructed
\* consumers, for all domain lists and constraints, on MaxCpus cores.
InitCID ==
  /\ Setup
  /\ Len(get_cpu_cores(hardware)) = MaxCpus
  /\ calls_left = 1

Config == <<hardware, all_memory_consumers, domains, executor_cpu_constraints,
           objects, cpu_namespace, cpu_ctr>>

AssignByNaive ==
  /\ calls_left > 0
  /\ LET out == assign_by_naive(hardware, all_memory_consumers, colors)
     IN /\ colors' = out.cols
        /\ last' = Call("naive", FALSE, out, colors)
  /\ calls_left' = calls_left - 1
  /\ UNCHANGED Config

AssignByCacheIsolationDomains ==
  /\ calls_left > 0
  /\ \E access_given \in BOOLEAN, order \in Orders :
       LET out == assign_by_cache_isolation_domains(
                    hardware, all_memory_consumers, domains,
                    executor_cpu_constraints, access_given, order, colors)
       IN /\ colors' = out.cols
          /\ last' = Call("cache_isolation", access_given, out, colors)
  /\ calls_left' = calls_left - 1
  /\ UNCHANGED Config

AssignColorByInterferenceDomains ==
  /\ calls_left > 0
  /\ \E order \in Orders :
       LET out == assign_color_by_interference_domains(
                    hardware, all_memory_consumers, domains, order, colors)
       IN /\ colors' = out.cols
          /\ last' = Call("interference", FALSE, out, colors)
  /\ calls_left' = calls_left - 1
  /\ UNCHANGED Config

AssignColorBySecurityLabels ==
  /\ calls_left > 0
  /\ LET out == assign_color_by_security_labels(hardware, Executors, colors)
     IN /\ colors' = out.cols
        /\ last' = Call("security_labels", FALSE, out, colors)
  /\ calls_left' = calls_left - 1
  /\ UNCHANGED Config

ResetColors ==
  /\ calls_left > 0
  /\ colors' = reset_colors(all_memory_consumers, colors)
  /\ last' = Call("reset", FALSE,
                  Result("None", empty_assignment(hardware), <<>>), colors)
  /\ calls_left' = calls_left - 1
  /\ UNCHANGED Config

Next ==
  \/ AssignByNaive
  \/ AssignByCacheIsolationDomains
  \/ AssignColorByInterferenceDomains
  \/ AssignColorBySecurityLabels
  \/ ResetColors

Spec == Init /\ [][Next]_vars

NextCID == AssignByCacheIsolationDomains

SpecCID == InitCID /\ [][NextCID]_vars

\* ------------------------------------------- the colour list of a Hardware
\* All hardware descriptions: up to MaxCpus cores and 1..MaxLevels cache
\* levels, each flushed or not, with up to MaxColors colours.
AllHardwares ==
  {[cpu_cores |-> [i \in 1..n |-> i - 1], caches |-> caches] :
     n \in 0..MaxCpus,
     caches \in UNION {[1..l -> [colors : 1..MaxColors, flushed : BOOLEAN]] :
                         l \in 1..MaxLevels}}

\* A Hardware is constructed; no consumers, domains or constraints.
InitHW ==
  /\ hardware \in AllHardwares
  /\ CpusConstructed
  /\ objects = <<>>
  /\ all_memory_consumers = <<>>
  /\ domains = <<>>
  /\ executor_cpu_constraints = <<>>
  /\ colors = [m \in Consumers |-> <<>>]
  /\ last = [op |-> "init"]
  /\ calls_left = 1

\* Hardware.get_all_system_page_colors and get_number_of_system_page_colors
GetAllSystemPageColors ==
  /\ calls_left > 0
  /\ last' = [op |-> "get_all_system_page_colors",
              colors |-> get_all_system_page_colors(hardware),
              number |-> get_number_of_system_page_colors(hardware)]
  /\ calls_left' = calls_left - 1
  /\ UNCHANGED <<Config, colors>>

\* Hardware.get_number_of_cpu_page_colors
GetNumberOfCpuPageColors ==
  /\ calls_left > 0
  /\ last' = [op |-> "get_number_of_cpu_page_colors",
              number |-> get_number_of_cpu_page_colors(hardware)]
  /\ calls_left' = calls_left - 1
  /\ UNCHANGED <<Config, colors>>

NextHW ==
  \/ GetAllSystemPageColors
  \/ GetNumberOfCpuPageColors

SpecHW == InitHW /\ [][NextHW]_vars

\* ------------------------------------------------ reset and recomputation
\* A driver that assigns colours MaxCalls - 1 times, resets them and assigns
\* colours again.
InitReset ==
  /\ Setup
  /\ PairwiseDisjoint(domains)
  /\ \A e \in Executors :
       e \in DOMAIN executor_cpu_constraints /\ executor_cpu_constraints[e] # {}
  /\ calls_left = MaxCalls + 1

Assign ==
  \/ AssignByNaive
  \/ AssignByCacheIsolationDomains
  \/ AssignColorByInterferenceDomains
  \/ AssignColorBySecurityLabels

NextReset ==
  \/ calls_left > 2 /\ Assign
  \/ calls_left = 2 /\ ResetColors
  \/ calls_left = 1 /\ Assign

SpecReset == InitReset /\ [][NextReset]_vars

\* ------------------------------------- one call of the interference method
\* One call of the interference domain method on freshly constructed
\* consumers, for all domain lists (overlapping domains included).
InitInterference ==
  /\ hardware \in Hardwares
  /\ CpusConstructed
  /\ objects = TheSystem
  /\ all_memory_consumers \in ConsumerDicts
  /\ domains \in DomainLists
  /\ executor_cpu_constraints = <<>>
  /\ colors = [m \in Consumers |-> <<>>]
  /\ last = Call("init", FALSE, Result("None", empty_assignment(hardware), <<>>),
                 [m \in Consumers |-> <<>>])
  /\ calls_left = 1

NextInterference == AssignColorByInterferenceDomains

SpecInterference == InitInterference /\ [][NextInterference]_vars

\* ------------------------------------------------- construction of a Cache
\* The arguments of a Cache construction: positive integers.
InitCache ==
  /\ hardware = [cpu_cores |-> <<>>, caches |-> <<>>]
  /\ CpusConstructed
  /\ objects = <<>>
  /\ all_memory_consumers = <<>>
  /\ domains = <<>>
  /\ executor_cpu_constraints = <<>>
  /\ colors = [m \in Consumers |-> <<>>]
  /\ last \in [op : {"init"},
               total_capacity : 1..MaxTotalCapacity,
               associativity : 1..MaxAssociativity,
               cacheline_capacity : 1..MaxCachelineCapacity,
               flushed : BOOLEAN,
               page_size : 1..MaxPageSize]
  /\ calls_left = 2

\* Cache(total_capacity, associativity, cacheline_capacity, flushed=...,
\*       page_size=...)
ConstructCache ==
  /\ calls_left = 2
  /\ last' = [op |-> "Cache",
              total_capacity |-> last.total_capacity,
              associativity |-> last.associativity,
              cache |-> Cache(last.total_capacity, last.associativity,
                              last.cacheline_capacity, last.flushed,
                              last.page_size)]
  /\ calls_left' = calls_left - 1
  /\ UNCHANGED <<Config, colors>>

\* Colour discovery for a cache that was constructed.
BuildCacheColors ==
  /\ calls_left = 1
  /\ last.op = "Cache" /\ last.cache.err = "None"
  /\ LET r == build_cache_colors(last.cache)
     IN last' = [op |-> "build_cache_colors", cache |-> last.cache,
                 err |-> r.err, probed |-> r.probed]
  /\ calls_left' = calls_left - 1
  /\ UNCHANGED <<Config, colors>>

NextCache ==
  \/ ConstructCache
  \/ BuildCacheColors

SpecCache == InitCache /\ [][NextCache]_vars

\* ------------------------------- construction and use of memory consumers
\* The objects a driver may construct: two Subjects, a Kernel, and Channels
\* with their source and target.
SubjectNames == {"s1", "s2"}

KernelNames == {"k"}

ChannelEnds ==
  [c12 |-> <<"s1", "s2">>, c21 |-> <<"s2", "s1">>, c12b |-> <<"s1", "s2">>]

ChannelNames == DOMAIN ChannelEnds

\* The memsize arguments: 0, no multiple of the page size, two pages.
MemSizes == {0, PAGE_SIZE + 1, 2 * PAGE_SIZE}

\* The address_space arguments: lists of up to two ranges over three pages.
MemRanges ==
  {r \in {0, PAGE_SIZE, 2 * PAGE_SIZE, 3 * PAGE_SIZE} \X
         {0, PAGE_SIZE, 2 * PAGE_SIZE, 3 * PAGE_SIZE} : r[1] < r[2]}

AddressSpaces == {<<>>} \cup [1..1 -> MemRanges] \cup [1..2 -> MemRanges]

\* Nothing is constructed yet.
InitObjects ==
  /\ hardware = [cpu_cores |-> <<>>, caches |-> <<>>]
  /\ CpusConstructed
  /\ all_memory_consumers = <<>>
  /\ domains = <<>>
  /\ executor_cpu_constraints = <<>>
  /\ colors = [m \in Consumers |-> <<>>]
  /\ objects = <<>>
  /\ last = [op |-> "init"]
  /\ calls_left = MaxObjectCalls

UnchangedButObjects ==
  UNCHANGED <<hardware, all_memory_consumers, domains,
              executor_cpu_constraints, colors, cpu_namespace, cpu_ctr>>

\* self = Subject(memsize)
ConstructSubject ==
  /\ calls_left > 0
  /\ \E self \in SubjectNames \ DOMAIN objects, memsize \in MemSizes :
       LET err == MemoryConsumer_init_err(memsize)
       IN /\ objects' = IF err = "None" THEN Subject_init(objects, self, memsize)
                        ELSE objects
          /\ last' = [op |-> "Subject", self |-> self, err |-> err]
  /\ calls_left' = calls_left - 1
  /\ UnchangedButObjects

\* self = Kernel(memsize)
ConstructKernel ==
  /\ calls_left > 0
  /\ \E self \in KernelNames \ DOMAIN objects, memsize \in MemSizes :
       LET err == MemoryConsumer_init_err(memsize)
       IN /\ objects' = IF err = "None" THEN Kernel_init(objects, self, memsize)
                        ELSE objects
          /\ last' = [op |-> "Kernel", self |-> self, err |-> err]
  /\ calls_left' = calls_left - 1
  /\ UnchangedButObjects

\* self = Channel(memsize, source, target), source and target constructed
ConstructChannel ==
  /\ calls_left > 0
  /\ \E self \in ChannelNames \ DOMAIN objects, memsize \in MemSizes :
       LET err == MemoryConsumer_init_err(memsize)
           source == ChannelEnds[self][1]
           target == ChannelEnds[self][2]
       IN /\ {source, target} \subseteq DOMAIN objects
          /\ objects' = IF err = "None"
                        THEN Channel_init(objects, self, memsize, source, target)
                        ELSE objects
          /\ last' = [op |-> "Channel", self |-> self, err |-> err]
  /\ calls_left' = calls_left - 1
  /\ UnchangedButObjects

\* self.set_address_space(address_space)
SetAddressSpace ==
  /\ calls_left > 0
  /\ \E self \in DOMAIN objects, address_space \in AddressSpaces :
       LET r == set_address_space(objects, self, address_space)
       IN /\ objects' = r.objs
          /\ last' = [op |-> "set_address_space", self |-> self, err |-> r.err,
                      address_space |-> address_space,
                      pre |-> get_address_space(objects, self)]
  /\ calls_left' = calls_left - 1
  /\ UnchangedButObjects

\* self.get_inoutchannels(subject)
GetInOutChannels ==
  /\ calls_left > 0
  /\ \E self \in DOMAIN objects, subject \in DOMAIN objects :
       /\ objects[self].kind = "Subject" /\ objects[subject].kind = "Subject"
       /\ LET r == get_inoutchannels(objects, self, subject)
          IN last' = [op |-> "get_inoutchannels", self |-> self,
                      subject |-> subject, err |-> r.err, channels |-> r.channels]
  /\ calls_left' = calls_left - 1
  /\ UNCHANGED <<Config, colors>>

NextObjects ==
  \/ ConstructSubject
  \/ ConstructKernel
  \/ ConstructChannel
  \/ SetAddressSpace
  \/ GetInOutChannels

SpecObjects == InitObjects /\ [][NextObjects]_vars

\* ------------------------------------------------- construction of CPUs
\* The names a driver gives to CPU cores; "0", "1", "2" are also names the
\* counter generates.
CpuNames == {"0", "1", "2", "a"}

\* The class attributes of Hardware.CPU when the module is loaded.
InitCPU ==
  /\ hardware = [cpu_cores |-> <<>>, caches |-> <<>>]
  /\ cpu_namespace = <<>>
  /\ cpu_ctr = 0
  /\ all_memory_consumers = <<>>
  /\ domains = <<>>
  /\ executor_cpu_constraints = <<>>
  /\ colors = [m \in Consumers |-> <<>>]
  /\ objects = <<>>
  /\ last = [op |-> "init"]
  /\ calls_left = MaxCpuConstructions

UnchangedButCpus ==
  UNCHANGED <<hardware, all_memory_consumers, domains,
              executor_cpu_constraints, colors, objects>>

\* Hardware.CPU(name)
ConstructNamedCPU ==
  /\ calls_left > 0
  /\ \E name \in CpuNames :
       LET r == CPU_init(name, cpu_namespace, cpu_ctr)
       IN /\ cpu_namespace' = r.cpu_namespace
          /\ cpu_ctr' = r.cpu_ctr
          /\ last' = [op |-> "CPU", given |-> name, err |-> r.err,
                      name |-> r.name]
  /\ calls_left' = calls_left - 1
  /\ UnchangedButCpus

\* Hardware.CPU()
ConstructUnnamedCPU ==
  /\ calls_left > 0
  /\ LET r == CPU_init("None", cpu_namespace, cpu_ctr)
     IN /\ cpu_namespace' = r.cpu_namespace
        /\ cpu_ctr' = r.cpu_ctr
        /\ last' = [op |-> "CPU", given |-> "None", err |-> r.err,
                    name |-> r.name]
  /\ calls_left' = calls_left - 1
  /\ UnchangedButCpus

NextCPU ==
  \/ ConstructNamedCPU
  \/ ConstructUnnamedCPU

SpecCPU == InitCPU /\ [][NextCPU]_vars

\* ------------------------------------------------------------- properties
\* The last call was the cache isolation domain method.
IsCacheIsolationCall == last.op = "cache_isolation"

\* The required CPU set of a consumer whose executors all have an entry.
RequiredCpus(m) ==
  UNION {executor_cpu_constraints[e] : e \in Range(get_executors(m))}

HasAllEntries(m) ==
  \A e \in Range(get_executors(m)) : e \in DOMAIN executor_cpu_constraints

\* The number of domains a consumer is a member of.
Memberships(m) == Cardinality({i \in 1..Len(domains) : m \in domains[i]})

\* The candidate colours of the i-th domain, as logged.
DomainCandidates(i) == UNION {last.log[i].cands[x] : x \in domains[i]}

\* The page-colour indices that are unreserved in pre on every CPU of cpus.
FreeIndices(cpus, pre) ==
  {p \in 0..(get_number_of_cpu_page_colors(hardware) - 1) :
     \A cpu \in cpus : pre[<<cpu, p>>] = {}}

\* C1: in the assignment returned by a successful call of the cache
\* isolation domain method no colour is reserved by consumers of different
\* domains: the consumers of every colour are members of one domain.
C1_ColorsStayInsideOneDomain ==
  (IsCacheIsolationCall /\ last.err = "None") =>
    \A c \in DOMAIN last.assignment :
      \/ last.assignment[c] = {}
      \/ \E i \in 1..Len(domains) : last.assignment[c] \subseteq domains[i]

\* Two consumers of two different domains hold colours of the same CPU.
C1_Witness ==
  /\ IsCacheIsolationCall /\ last.err = "None"
  /\ \E c1, c2 \in DOMAIN last.assignment :
       /\ c1 # c2 /\ c1[1] = c2[1]
       /\ last.assignment[c1] # {} /\ last.assignment[c2] # {}
       /\ \A i \in 1..Len(domains) :
            ~(last.assignment[c1] \cup last.assignment[c2] \subseteq domains[i])

\* C2 (as claimed): after a successful assign_by_cache_isolation_domains on
\* consumers with empty colour lists every consumer of all_memory_consumers
\* holds at least one colour, and one on each CPU of its required CPU set.
C2_EveryConsumerGetsAColor ==
  (/\ IsCacheIsolationCall /\ last.err = "None"
   /\ \A m \in Range(all_memory_consumers) : last.pre[m] = <<>>) =>
    \A m \in Range(all_memory_consumers) :
      /\ colors[m] # <<>>
      /\ \A cpu \in RequiredCpus(m) :
           \E k \in 1..Len(colors[m]) : colors[m][k][1] = cpu

\* C3: in the returned assignment a consumer m is in the set of a colour
\* (cpu, p) exactly if the colour is a candidate of a domain of m and cpu is
\* in m's required CPU set; so every colour of m is on a CPU m requires and
\* two members of a domain share a colour only on a CPU both require.
C3_ColorIffCandidateOnRequiredCpu ==
  (IsCacheIsolationCall /\ last.err = "None") =>
    /\ \A m \in Consumers : \A c \in DOMAIN last.assignment :
         (m \in last.assignment[c]) <=>
           (\E i \in 1..Len(domains) :
              /\ m \in domains[i]
              /\ c \in DomainCandidates(i)
              /\ c[1] \in RequiredCpus(m))
    /\ \A c \in DOMAIN last.assignment : \A m \in last.assignment[c] :
         c[1] \in RequiredCpus(m)

\* A domain with two members, a candidate colour held by one of them only.
C3_Witness ==
  /\ IsCacheIsolationCall /\ last.err = "None"
  /\ \E i \in 1..Len(domains) : \E m1, m2 \in domains[i] :
       \E c \in DomainCandidates(i) :
         /\ m1 \in last.assignment[c] /\ m2 \notin last.assignment[c]
         /\ \E c2 \in DomainCandidates(i) :
              {m1, m2} \subseteq last.assignment[c2]

\* C4: when a domain is processed, the candidates of each member are the
\* colours (cpu, p) for the CPUs of its required set, p being the lowest
\* page-colour index that is unreserved on all these CPUs in the assignment
\* as the previously processed domains left it.
C4_CandidatesAtLowestCommonIndex ==
  IsCacheIsolationCall =>
    \A i \in 1..Len(last.log) :
      /\ \A c \in DOMAIN last.log[i].pre :
           (last.log[i].pre[c] = {}) <=>
             (\A j \in 1..(i - 1) : c \notin DomainCandidates(j))
      /\ last.log[i].err = "None" =>
           \A m \in domains[i] :
             LET free == FreeIndices(RequiredCpus(m), last.log[i].pre)
             IN /\ free # {}
                /\ last.log[i].cands[m] =
                     {<<cpu, CHOOSE p \in free : \A q \in free : p <= q>> :
                        cpu \in RequiredCpus(m)}

\* A member on two CPUs gets index 1 although index 0 is free on one CPU.
C4_Witness ==
  /\ IsCacheIsolationCall /\ last.err = "None"
  /\ \E i \in 1..Len(last.log) : \E m \in domains[i] :
       /\ Cardinality(RequiredCpus(m)) = 2
       /\ \E c \in last.log[i].cands[m] : c[2] = 1
       /\ \E cpu \in RequiredCpus(m) : last.log[i].pre[<<cpu, 0>>] = {}

\* C5: the cache isolation domain method raises ColorExhaustion exactly if
\* for some member visited while its domain is processed no page-colour
\* index is unreserved on every CPU of the member's required set.
C5_ExhaustionIffNoCommonIndex ==
  (IsCacheIsolationCall /\
   last.err \notin {"ASSMS-CACHE-ISOLATION-0", "ASSMS-CACHE-ISOLATION-1",
                    "ASSMS-CACHE-ISOLATION-7"}) =>
    ((last.err = "ColorExhaustion") <=>
       (\E i \in 1..Len(last.log) : \E m \in last.log[i].visited :
          /\ HasAllEntries(m)
          /\ FreeIndices(RequiredCpus(m), last.log[i].pre) = {}))

\* The colours run out for the second domain.
C5_Witness ==
  /\ IsCacheIsolationCall /\ last.err = "ColorExhaustion"
  /\ Len(last.log) = 2

\* C6: if a consumer of all_memory_consumers is a member of no domain or of
\* two or more, the cache isolation domain method fails before a colour is
\* reserved and no colour list changes.
C6_MembershipCheckedBeforeAnyReservation ==
  (IsCacheIsolationCall /\
   \E m \in Range(all_memory_consumers) : Memberships(m) # 1) =>
    /\ last.err \in {"ASSMS-CACHE-ISOLATION-0", "ASSMS-CACHE-ISOLATION-1"}
    /\ last.log = <<>>
    /\ \A c \in DOMAIN last.assignment : last.assignment[c] = {}
    /\ colors = last.pre

\* A consumer in two domains, all others in one, every executor constrained
\* to a CPU: without the check, colours would be reserved.
C6_Witness ==
  /\ IsCacheIsolationCall /\ ~last.access_given
  /\ \E m \in Range(all_memory_consumers) : Memberships(m) = 2
  /\ \A m \in Range(all_memory_consumers) : Memberships(m) >= 1
  /\ \A e \in Executors :
       e \in DOMAIN executor_cpu_constraints /\ executor_cpu_constraints[e] # {}

\* C7 (as claimed): if an executor that accesses a member of a domain has no
\* CPU-affinity constraint (no entry, or an entry with an empty CPU set),
\* assign_by_cache_isolation_domains fails and no colour list changes.
C7_MissingAffinityFails ==
  (IsCacheIsolationCall /\
   \E i \in 1..Len(domains) : \E m \in domains[i] :
     \E e \in Range(get_executors(m)) :
       \/ e \notin DOMAIN executor_cpu_constraints
       \/ executor_cpu_constraints[e] = {}) =>
    (last.err # "None" /\ colors = last.pre)

\* C8: when assign_by_cache_isolation_domains or assign_by_naive raises
\* ColorExhaustion, every colour list is what it was before the call.
C8_ExhaustionLeavesColorsUnchanged ==
  (last.op \in {"naive", "cache_isolation"} /\ last.err = "ColorExhaustion")
    => colors = last.pre

\* The cache isolation domain method runs out of colours after the first
\* domain got its colours, and the consumers held colours before the call.
C8_Witness ==
  /\ IsCacheIsolationCall /\ last.err = "ColorExhaustion"
  /\ Len(last.log) = 2
  /\ \E m \in Range(all_memory_consumers) : last.pre[m] # <<>>

\* C9 (as claimed): when assign_color_by_interference_domains raises
\* ColorExhaustion every consumer's colour list is still empty.
C9_InterferenceExhaustionLeavesNoColors ==
  (last.op = "interference" /\ last.err = "ColorExhaustion") =>
    \A m \in Consumers : colors[m] = <<>>

\* C10 (as claimed): when the call of the cache isolation domain method
\* without cpu_access_constraints returns an assignment, the call with a
\* supplied cpu_access_constraints argument returns the same assignment.
C10_AccessConstraintsAccepted ==
  (IsCacheIsolationCall /\ last.access_given) =>
    \A order \in Orders :
      LET r == get_assignment_by_cache_isolation_domains(
                 hardware, all_memory_consumers, domains,
                 executor_cpu_constraints, FALSE, order)
      IN r.err = "None" =>
           (last.err = "None" /\ last.assignment = r.assignment)

\* The last call was the naive method.
IsNaiveCall == last.op = "naive"

C12_NaiveExhaustionIffTooManyConsumers ==
  LET num_colors == get_number_of_cpu_page_colors(hardware) *
                      Len(get_cpu_cores(hardware))
      n == Len(all_memory_consumers)
  IN IsNaiveCall =>
       /\ (last.err = "ColorExhaustion") <=> (n > num_colors)
       /\ (last.err = "None") <=> (n <= num_colors)
       /\ (n = num_colors) =>
            \A color \in DOMAIN last.assignment : last.assignment[color] # {}

\* As many consumers as colours: the call returns and every colour is used.
C12_Witness ==
  /\ IsNaiveCall /\ last.err = "None"
  /\ Len(all_memory_consumers) =
       get_number_of_cpu_page_colors(hardware) * Len(get_cpu_cores(hardware))
  /\ \A color \in DOMAIN last.assignment : last.assignment[color] # {}

\* C13: for every hardware, get_all_system_page_colors returns a list
\* without duplicates, of length get_number_of_cpu_page_colors() times the
\* number of CPU cores (which is get_number_of_system_page_colors()), whose
\* element at position k (0-based) is (cpu_cores[k mod c], k div c).
C13_SystemPageColorsCoreFastest ==
  (last.op = "get_all_system_page_colors") =>
    LET c == Len(get_cpu_cores(hardware))
        all == last.colors
    IN /\ Len(all) = get_number_of_cpu_page_colors(hardware) * c
       /\ Len(all) = last.number
       /\ \A j, k \in 1..Len(all) : j # k => all[j] # all[k]
       /\ \A k \in 1..Len(all) :
            all[k] = <<get_cpu_cores(hardware)[((k - 1) % c) + 1], (k - 1) \div c>>

\* Two cores, a flushed first level and a second level with two colours:
\* colour 0 of both cores precedes colour 1 of both cores.
C13_Witness ==
  /\ last.op = "get_all_system_page_colors"
  /\ Len(hardware.caches) = 2 /\ hardware.caches[1].flushed
  /\ last.colors = <<<<0, 0>>, <<1, 0>>, <<0, 1>>, <<1, 1>>>>

\* The colours a consumer gained in the last call, in the order it got them.
Gained(m) == SubSeq(colors[m], Len(last.pre[m]) + 1, Len(colors[m]))

\* C14: in every call of assign_by_naive, assign_by_cache_isolation_domains
\* and assign_color_by_security_labels, returning or raising, the colour list
\* of every consumer before the call is a prefix of its list after the call,
\* and the consumer gains a colour, once, exactly if it is in the set of that
\* colour in the assignment the call computed (a raising call computes none).
C14_ColorListsOnlyGrow ==
  (last.op \in {"naive", "cache_isolation", "security_labels"}) =>
    \A m \in Consumers :
      /\ Len(last.pre[m]) <= Len(colors[m])
      /\ SubSeq(colors[m], 1, Len(last.pre[m])) = last.pre[m]
      /\ Range(Gained(m)) = {k \in DOMAIN last.assignment : m \in last.assignment[k]}
      /\ Cardinality(Range(Gained(m))) = Len(Gained(m))

\* A consumer that held a colour before a call gains a colour in the call.
C14_Witness ==
  /\ last.op \in {"naive", "cache_isolation"} /\ last.err = "None"
  /\ \E m \in Consumers : last.pre[m] # <<>> /\ Gained(m) # <<>>

\* The colour lists of freshly constructed consumers.
FreshColors == [m \in Consumers |-> <<>>]

\* What a strategy gives to freshly constructed consumers of this system.
FreshOutcomes(op) ==
  IF op = "naive"
  THEN {assign_by_naive(hardware, all_memory_consumers, FreshColors)}
  ELSE IF op = "cache_isolation"
  THEN {assign_by_cache_isolation_domains(
          hardware, all_memory_consumers, domains, executor_cpu_constraints,
          last'.access_given, order, FreshColors) : order \in Orders}
  ELSE IF op = "interference"
  THEN {assign_color_by_interference_domains(
          hardware, all_memory_consumers, domains, order, FreshColors) :
          order \in Orders}
  ELSE {assign_color_by_security_labels(hardware, Executors, FreshColors)}

\* C15: reset_colors leaves every consumer of the dict with an empty colour
\* list, and the assignment call that follows a reset ends as the same call
\* on freshly constructed consumers ends (for some iteration order of the
\* sets): the same exception or return, and the same colour list for every
\* consumer of the dict.
C15_ResetThenAssignAsFresh ==
  [][/\ (last'.op = "reset") =>
          \A m \in Range(all_memory_consumers) : colors'[m] = <<>>
     /\ (last.op = "reset" /\ last'.op # "reset") =>
          \E f \in FreshOutcomes(last'.op) :
            /\ last'.err = f.err
            /\ \A m \in Range(all_memory_consumers) : colors'[m] = f.cols[m]
    ]_vars

\* After a reset that emptied a colour list, an assignment gave the consumers
\* of the dict colours again, while a consumer outside the dict still holds
\* a colour of the assignment before the reset.
C15_Witness ==
  /\ last.op \in {"naive", "cache_isolation", "interference"}
  /\ calls_left = 0
  /\ \A m \in Range(all_memory_consumers) : last.pre[m] = <<>> /\ colors[m] # <<>>
  /\ \E m \in Consumers \ Range(all_memory_consumers) : last.pre[m] # <<>>

\* The last call was the interference domain method.
IsInterferenceCall == last.op = "interference"

\* The k-th (1-based) system page colour: core varies fastest.
SystemPageColorAt(k) ==
  LET c == Len(get_cpu_cores(hardware))
  IN <<get_cpu_cores(hardware)[((k - 1) % c) + 1], (k - 1) \div c>>

\* The consumers of the dict that are in no domain, in dict order.
OutsideAllDomains ==
  SelectSeq(all_memory_consumers,
            LAMBDA m : \A j \in 1..Len(domains) : m \notin domains[j])

\* C16: for pairwise disjoint, non-empty interference domains D_0..D_{k-1}
\* of consumers of the dict, consumers with empty colour lists and at least
\* k + (number of consumers outside all domains) colours,
\* assign_color_by_interference_domains returns, every member of D_j holds
\* exactly the j-th system page colour, the i-th consumer outside all domains
\* holds exactly the (k+i)-th, and two consumers share a colour exactly if
\* they are in the same domain.
C16_InterferenceDomainsShareOneColor ==
  LET k == Len(domains)
      rest == OutsideAllDomains
      amc == Range(all_memory_consumers)
  IN (/\ IsInterferenceCall
      /\ \A m \in amc : last.pre[m] = <<>>
      /\ PairwiseDisjoint(domains)
      /\ \A j \in 1..k : domains[j] # {} /\ domains[j] \subseteq amc
      /\ k + Len(rest) <= get_number_of_cpu_page_colors(hardware) *
                            Len(get_cpu_cores(hardware))) =>
       /\ last.err = "None"
       /\ \A j \in 1..k : \A m \in domains[j] :
            colors[m] = <<SystemPageColorAt(j)>>
       /\ \A i \in 1..Len(rest) : colors[rest[i]] = <<SystemPageColorAt(k + i)>>
       /\ \A m1, m2 \in amc :
            (m1 # m2) =>
              ((Range(colors[m1]) \cap Range(colors[m2]) # {}) <=>
                 (\E j \in 1..k : {m1, m2} \subseteq domains[j]))

\* Two domains, the second with two members, on one core with two colours:
\* both members hold the second colour.
C16_Witness ==
  /\ IsInterferenceCall /\ last.err = "None"
  /\ Len(domains) = 2 /\ Cardinality(domains[2]) = 2
  /\ Len(get_cpu_cores(hardware)) = 1
  /\ \A m \in domains[2] : colors[m] = <<<<0, 1>>>>
  /\ \A m \in domains[1] : colors[m] = <<<<0, 0>>>>

\* The last domain a consumer is a member of.
LastDomainOf(m) ==
  domains[CHOOSE j \in 1..Len(domains) :
            m \in domains[j] /\ \A h \in (j + 1)..Len(domains) : m \notin domains[h]]

\* C17 (as claimed): when a consumer of the dict is a member of two
\* interference domains (all members in the dict, empty colour lists, a
\* colour for every domain and consumer), assign_color_by_interference_domains
\* returns and the consumer holds exactly one colour, which the members of
\* the later of its domains hold too.
C17_LaterDomainOverwrites ==
  LET amc == Range(all_memory_consumers)
  IN (/\ IsInterferenceCall
      /\ \A m \in amc : last.pre[m] = <<>>
      /\ \A j \in 1..Len(domains) : domains[j] \subseteq amc
      /\ \E m \in amc : Memberships(m) = 2
      /\ Len(domains) + Len(all_memory_consumers) <=
           get_number_of_cpu_page_colors(hardware) * Len(get_cpu_cores(hardware))) =>
       /\ last.err = "None"
       /\ \A m \in amc :
            (Memberships(m) = 2) =>
              /\ Len(colors[m]) = 1
              /\ \A m2 \in LastDomainOf(m) : colors[m][1] \in Range(colors[m2])

\* C18: on consumers with empty colour lists, assign_by_naive and
\* assign_color_by_interference_domains with the empty domain list either
\* both raise ColorExhaustion or both return and leave every consumer with
\* the same colour list.
C18_NaiveIsInterferenceWithoutDomains ==
  LET same(out) ==
        \/ last.err = "ColorExhaustion" /\ out.err = "ColorExhaustion"
        \/ /\ last.err = "None" /\ out.err = "None"
           /\ \A m \in Consumers : colors[m] = out.cols[m]
  IN /\ (IsNaiveCall /\ \A m \in Consumers : last.pre[m] = <<>>) =>
          \A order \in Orders :
            same(assign_color_by_interference_domains(
                   hardware, all_memory_consumers, <<>>, order, last.pre))
     /\ (IsInterferenceCall /\ domains = <<>> /\
         \A m \in Consumers : last.pre[m] = <<>>) =>
          same(assign_by_naive(hardware, all_memory_consumers, last.pre))

\* The interference method without domains gave three consumers a colour
\* each, the third one on colour index 1.
C18_Witness ==
  /\ IsInterferenceCall /\ domains = <<>> /\ last.err = "None"
  /\ \A m \in Consumers : last.pre[m] = <<>>
  /\ Len(all_memory_consumers) = 3
  /\ colors[all_memory_consumers[3]] = <<<<0, 1>>>>

\* The last step was the construction of a Cache.
IsCacheConstruction == last.op = "Cache"

C20_DiscoveryFindsAllColors ==
  (last.op = "build_cache_colors") =>
    /\ last.err = "None"
    /\ Len(last.probed) = last.cache.colors
    /\ \A j, k \in 1..Len(last.probed) : j # k => last.probed[j] # last.probed[k]
    /\ \A k \in last.cache.colors..(last.cache.colors + MaxFurtherPages) :
         affected_sets(last.cache, k * last.cache.page_size) \in Range(last.probed)

\* Discovery on a cache with 4 colours of 2 sets each: the second page
\* touches the sets 2 and 3.
C20_Witness ==
  /\ last.op = "build_cache_colors"
  /\ last.cache.colors = 4 /\ last.cache.affected_sets_per_page = 2
  /\ last.probed[2] = {2, 3}

\* The last step was a call of set_address_space.
IsSetAddressSpace == last.op = "set_address_space"

\* The sum of the lengths of the ranges of the last call's argument.
SumOfRangeLengths ==
  LET a == last.address_space
      RECURSIVE sum(_)
      sum(i) == IF i = 0 THEN 0 ELSE (a[i][2] - a[i][1]) + sum(i - 1)
  IN sum(Len(a))

\* Two ranges of the last call's argument have an address in common.
HasOverlappingRanges ==
  LET a == last.address_space
  IN \E i, j \in 1..Len(a) :
       i # j /\ a[i][1] < a[j][2] /\ a[j][1] < a[i][2]

\* C21: set_address_space fails on an empty range list, on a list whose
\* range lengths do not sum to memsize and on a list with overlapping
\* ranges, and get_address_space then returns what it returned before.
C21_BadAddressSpaceRejected ==
  (/\ IsSetAddressSpace
   /\ \/ last.address_space = <<>>
      \/ SumOfRangeLengths # objects[last.self].memsize
      \/ HasOverlappingRanges) =>
    /\ last.err # "None"
    /\ get_address_space(objects, last.self) = last.pre

\* Two overlapping ranges whose lengths sum to memsize were rejected.
C21_Witness ==
  /\ IsSetAddressSpace
  /\ last.address_space = <<<<0, PAGE_SIZE>>, <<0, PAGE_SIZE>>>>
  /\ objects[last.self].memsize = 2 * PAGE_SIZE
  /\ last.err # "None"
  /\ get_address_space(objects, last.self) = "None"

\* C22 (as claimed): set_address_space with a non-empty list of pairwise
\* non-overlapping ranges whose lengths sum to memsize succeeds, and
\* get_address_space then returns that list.
C22_GoodAddressSpaceAccepted ==
  (/\ IsSetAddressSpace
   /\ last.address_space # <<>>
   /\ SumOfRangeLengths = objects[last.self].memsize
   /\ ~HasOverlappingRanges) =>
    /\ last.err = "None"
    /\ get_address_space(objects, last.self) = last.address_space

\* C23: the executor list of a Kernel or Subject is itself and that of a
\* Channel is its source and its target; the channel is in the source's
\* out-channel list for the target and in the target's in-channel list for
\* the source; and the CPU set the cache isolation domain method computes
\* for a consumer is the affinity set of the Kernel or Subject itself, or
\* the union of the source's and the target's affinity sets.
C23_RequiredCpusFromExecutors ==
  \A m \in DOMAIN objects :
    /\ (m \in SubjectNames \cup KernelNames) =>
         /\ get_executors(m) = <<m>>
         /\ \A ecc \in [SubjectNames \cup KernelNames -> SUBSET {0, 1}] :
              memory_consumer_cpus(m, ecc) = ecc[m]
    /\ (m \in ChannelNames) =>
         LET source == ChannelEnds[m][1]
             target == ChannelEnds[m][2]
         IN /\ get_executors(m) = <<source, target>>
            /\ m \in Range(objects[source].outchannels[target])
            /\ m \in Range(objects[target].inchannels[source])
            /\ \A ecc \in [SubjectNames \cup KernelNames -> SUBSET {0, 1}] :
                 memory_consumer_cpus(m, ecc) = ecc[source] \cup ecc[target]

\* A Kernel, two Subjects and a Channel from s2 to s1 are constructed.
C23_Witness ==
  /\ {"k", "s1", "s2", "c21"} \subseteq DOMAIN objects
  /\ get_executors("c21") = <<"s2", "s1">>
  /\ get_executors("k") = <<"k">>
  /\ objects["s1"].inchannels["s2"] = <<"c21">>

\* The constructed channels between two subjects, in either direction.
ChannelsBetween(s, t) ==
  {c \in ChannelNames \cap DOMAIN objects :
     ChannelEnds[c] = <<s, t>> \/ ChannelEnds[c] = <<t, s>>}

\* C27 (as claimed): for two subjects connected by at least one channel,
\* in either direction, get_inoutchannels returns the channels between
\* them, each once.
C27_InOutChannelsOfConnectedSubjects ==
  (/\ last.op = "get_inoutchannels"
   /\ ChannelsBetween(last.self, last.subject) # {}) =>
    /\ last.err = "None"
    /\ Range(last.channels) = ChannelsBetween(last.self, last.subject)
    /\ Len(last.channels) = Cardinality(ChannelsBetween(last.self, last.subject))

\* C24: after any sequence of CPU constructions, named or unnamed, failed
\* or not, the namespace holds no name twice: the CPUs that were constructed
\* have pairwise distinct names.
C24_CpuNamesUnique ==
  \A i, j \in 1..Len(cpu_namespace) :
    i # j => cpu_namespace[i] # cpu_namespace[j]

\* A construction failed on a name in use, after named and unnamed CPUs
\* were constructed.
C24_Witness ==
  /\ last.op = "CPU" /\ last.err = "AssertionError"
  /\ Len(cpu_namespace) >= 2
  /\ cpu_ctr >= 1
  /\ "a" \in Range(cpu_namespace)

\* The colour count of the representative cache of the last cache level.
LastLevelColors == hardware.caches[Len(hardware.caches)].colors

\* C25 (as claimed): for every hardware, get_number_of_cpu_page_colors is at
\* most the colour count of the last cache level, and so the page-colour
\* component of every SystemPageColor is below that count.
C25_CpuPageColorsBoundedByLastLevel ==
  /\ (last.op = "get_number_of_cpu_page_colors") =>
       last.number <= LastLevelColors
  /\ (last.op = "get_all_system_page_colors") =>
       \A k \in 1..Len(last.colors) : last.colors[k][2] < LastLevelColors

\* C26: get_number_of_cpu_page_colors returns the colour count of the first
\* cache level that is not flushed, and that of the last level if every
\* level is flushed.
C26_FirstUnflushedLevelCounts ==
  (last.op = "get_number_of_cpu_page_colors") =>
    LET unflushed == {i \in 1..Len(hardware.caches) : ~hardware.caches[i].flushed}
    IN IF unflushed = {}
       THEN last.number = LastLevelColors
       ELSE \E i \in unflushed :
              /\ \A j \in unflushed : i <= j
              /\ last.number = hardware.caches[i].colors

\* A flushed first level with one colour: the two colours of the second
\* level, which is not flushed, are returned although a third level has one.
C26_Witness ==
  /\ last.op = "get_number_of_cpu_page_colors"
  /\ Len(hardware.caches) = 3
  /\ hardware.caches[1].flushed /\ hardware.caches[1].colors = 1
  /\ ~hardware.caches[2].flushed /\ hardware.caches[2].colors = 2
  /\ hardware.caches[3].colors = 1
  /\ last.number = 2


\* Every iteration order of the consumers; a domain's members are visited in
\* the order's restriction to the domain.
AllOrders ==
  {o \in [1..Cardinality(Consumers) -> Consumers] :
     \A i, j \in 1..Cardinality(Consumers) : i # j => o[i] # o[j]}

\* The domain list read from its end.
ReversedDomains ==
  [i \in 1..Len(domains) |-> domains[Len(domains) + 1 - i]]

\* What the cache isolation domain method returns for the domain list doms
\* when sets are iterated in the given order.
CacheIsolationResult(doms, order) ==
  get_assignment_by_cache_isolation_domains(
    hardware, all_memory_consumers, doms, executor_cpu_constraints,
    last.access_given, order)

\* C28: when the cache isolation domain method returned an assignment, it
\* returns the same assignment for the same domain list under every iteration
\* order of the members of the domains.
C28_MemberOrderIrrelevant ==
  (IsCacheIsolationCall /\ last.err = "None") =>
    \A order \in AllOrders :
      /\ CacheIsolationResult(domains, order).err = "None"
      /\ CacheIsolationResult(domains, order).assignment = last.assignment

\* A call returned an assignment for a domain with several members on
\* different CPU sets, and the reversed domain list gives another assignment.
C28_Witness ==
  /\ IsCacheIsolationCall
  /\ last.err = "None"
  /\ \E i \in 1..Len(domains) : \E m, n \in domains[i] :
       /\ m # n
       /\ memory_consumer_cpus(m, executor_cpu_constraints)
            # memory_consumer_cpus(n, executor_cpu_constraints)
  /\ \E order \in AllOrders :
       /\ CacheIsolationResult(ReversedDomains, order).err = "None"
       /\ CacheIsolationResult(ReversedDomains, order).assignment
            # last.assignment


\* The consumers that appear in the assignment the last call returned.
ColoredByLastCall ==
  UNION {last.assignment[c] : c \in DOMAIN last.assignment}

\* C29 (as claimed): every consumer in the assignment returned by the cache
\* isolation domain method is a value of all_memory_consumers and a member of
\* exactly one domain.
C29_OnlySystemConsumersColored ==
  (IsCacheIsolationCall /\ last.err = "None") =>
    \A m \in ColoredByLastCall :
      /\ m \in Range(all_memory_consumers)
      /\ count_membership_of_mc(m, domains) = 1

\* C30 (as claimed): the construction of a CPU without a name succeeds,
\* whatever named and unnamed constructions came before.
C30_UnnamedCpuAlwaysConstructed ==
  (last.op = "CPU" /\ last.given = "None") => last.err = "None"

====
